---- MODULE Spec2Model ----
(***************************************************************************)
(* Lexical hierarchy of a typst document                                   *)
(* (crates/tinymist-query/src/syntax/lexical_hierarchy.rs).                *)
(*                                                                         *)
(* get_lexical_hierarchy walks the concrete syntax tree depth first.  The  *)
(* recursion of check_node is unfolded into a control stack `ctl` of       *)
(* pending calls and continuations, one action per arm of check_node.      *)
(* A LinkedNode is a path (sequence of child indices) from the root.       *)
(***************************************************************************)
EXTENDS Integers, Sequences, FiniteSets, TLC

VARIABLES
    doc,            \* source.root(): the immutable syntax tree
    sk,             \* worker.sk: LexicalScopeKind
    stack,          \* worker.stack: Vec<(LexicalInfo, EcoVec<LexicalHierarchy>)>
    ident_context,  \* worker.ident_context
    ctl,            \* pending check_node calls and continuations (call stack)
    pc,             \* position in get_lexical_hierarchy
    res,            \* `res` of get_lexical_hierarchy: "Ok", "Err" or "none" (not yet set)
    result,         \* the returned Option<EcoVec<LexicalHierarchy>>
    invocation,     \* how many calls of get_lexical_hierarchy have been made on the tree
    first           \* what the first call returned, once a later call has begun

vars == <<doc, sk, stack, ident_context, ctl, pc, res, result, invocation, first>>

-----------------------------------------------------------------------------
(* Bounds of the explored documents.                                       *)

MaxHeadingLines == 5
MaxCommentLines == 3
MaxCodeLines == 2
\* calls of get_lexical_hierarchy on one tree
MaxCalls == 2

-----------------------------------------------------------------------------
(* Syntax nodes: a leaf carries its text, an inner node its children.      *)
(* `ok` is whether the typed-view cast of the node succeeds.               *)

Tok(k, t) == [kind |-> k, text |-> t, ch |-> <<>>, ok |-> TRUE]
Nd(k, c) == [kind |-> k, text |-> "", ch |-> c, ok |-> TRUE]

RECURSIVE TextOf(_)
TextOf(n) ==
    LET RECURSIVE Cat(_, _)
        Cat(c, i) == IF i > Len(c) THEN "" ELSE TextOf(c[i]) \o Cat(c, i + 1)
    IN IF n.ch = <<>> THEN n.text ELSE Cat(n.ch, 1)

NodeLen(n) == Len(TextOf(n))

RECURSIVE NodeAt(_, _)
NodeAt(n, p) == IF p = <<>> THEN n ELSE NodeAt(n.ch[Head(p)], Tail(p))

RECURSIVE OffsetIn(_, _)
OffsetIn(n, p) ==
    LET RECURSIVE Before(_)
        Before(i) == IF i = 0 THEN 0 ELSE NodeLen(n.ch[i]) + Before(i - 1)
    IN IF p = <<>> THEN 0
       ELSE Before(Head(p) - 1) + OffsetIn(n.ch[Head(p)], Tail(p))

Node(p) == NodeAt(doc, p)
Kind(p) == Node(p).kind
Offset(p) == OffsetIn(doc, p)
Range(p) == [start |-> Offset(p), end |-> Offset(p) + NodeLen(Node(p))]
Children(p) == [i \in 1..Len(Node(p).ch) |-> Append(p, i)]
Parent(p) == SubSeq(p, 1, Len(p) - 1)

-----------------------------------------------------------------------------
(* Kind predicates of the syntax library.                                  *)

KeywordKinds == {"Let", "For", "In", "Import"}
TriviaKinds == {"LineComment", "BlockComment", "Space", "Parbreak"}
ExprKinds ==
    {"Text", "Parbreak", "Label", "Heading", "Raw", "Equation", "Ident", "Int",
     "CodeBlock", "ContentBlock", "Parenthesized", "Array", "Dict", "FieldAccess",
     "FuncCall", "Closure", "LetBinding", "ForLoop", "ModuleImport"}

IsTrivia(k) == k \in TriviaKinds
IsKeyword(k) == k \in KeywordKinds
IsError(k) == k = "Error"
IsExpr(k) == k \in ExprKinds
PatternKinds == {"Underscore", "Parenthesized", "Destructuring"} \cup ExprKinds
IsPattern(k) == k \in PatternKinds

-----------------------------------------------------------------------------
(* Documents.  A document is a root Markup node holding lines separated by *)
(* whitespace; each line is a sequence of sibling nodes.                   *)

Sp == Tok("Space", " ")
Par == Tok("Parbreak", "  ")
Hash == Tok("Hash", "#")
LineCommentTok == Tok("LineComment", "//c")
LabelTok == Tok("Label", "<x>")
TextTok == Tok("Text", "t")
LParen == Tok("LeftParen", "(")
RParen == Tok("RightParen", ")")
EqTok == Tok("Eq", "=")
LetTok == Tok("Let", "let")
Ident(t) == Tok("Ident", t)
BadIdent(t) == [Tok("Ident", t) EXCEPT !.ok = FALSE]

Marker(l) == Tok("HeadingMarker", IF l = 1 THEN "=" ELSE IF l = 2 THEN "==" ELSE "===")
\* `= a`, `== a`, `=== a`
HeadingNode(l) == Nd("Heading", <<Marker(l), Sp, Nd("Markup", <<Tok("Text", "a")>>)>>)
\* `[= a]`
ContentBlockNode(l) ==
    Nd("ContentBlock", <<Tok("LeftBracket", "["), Nd("Markup", <<HeadingNode(l)>>),
                         Tok("RightBracket", "]")>>)
\* `f(x) = <body>` as the parser wraps it for a let binding
NamedClosure(body) ==
    Nd("Closure", <<Ident("f"), Nd("Params", <<LParen, Ident("x"), RParen>>),
                    Sp, EqTok, Sp, body>>)
\* `let <pattern> = 1`
LetNode(pattern) == Nd("LetBinding", <<LetTok, Sp, pattern, Sp, EqTok, Sp, Tok("Int", "1")>>)
\* `f(x)`
CallNode(arg) == Nd("FuncCall", <<Ident("f"), Nd("Args", <<LParen, arg, RParen>>)>>)
\* `for <pattern> in <iterable> {}`
ForNode(pattern, iterable) ==
    Nd("ForLoop", <<Tok("For", "for"), Sp, pattern, Sp, Tok("In", "in"), Sp, iterable, Sp,
                    Nd("CodeBlock", <<Tok("LeftBrace", "{"), Tok("RightBrace", "}")>>)>>)

HeadingLines == { <<HeadingNode(l)>> : l \in 1..3 }

CommentLines ==
    { <<LineCommentTok>>,                    \* `//c`
      <<LabelTok>>,                          \* `<x>`
      <<LabelTok, LineCommentTok>>,          \* `<x>//c`
      <<TextTok, Sp, LineCommentTok>>,       \* `t //c`
      <<Tok("BlockComment", "/**/")>> }      \* `/**/`

CodeLines ==
    { <<HeadingNode(1)>>, <<HeadingNode(2)>>,
      <<LineCommentTok>>,
      \* `#let x = 1`
      <<Hash, LetNode(Ident("x"))>>,
      \* `#let x = 1` whose identifier does not cast
      <<Hash, LetNode(BadIdent("x"))>>,
      \* `#let f(x) = x`
      <<Hash, Nd("LetBinding", <<LetTok, Sp, NamedClosure(Ident("x"))>>)>>,
      \* `#let f(x) = x` whose body identifier does not cast
      <<Hash, Nd("LetBinding", <<LetTok, Sp, NamedClosure(BadIdent("x"))>>)>>,
      \* `#let f(x) = [= a]`, `#let f(x) = [== a]`
      <<Hash, Nd("LetBinding", <<LetTok, Sp, NamedClosure(ContentBlockNode(1))>>)>>,
      <<Hash, Nd("LetBinding", <<LetTok, Sp, NamedClosure(ContentBlockNode(2))>>)>>,
      \* `#(x => x)`
      <<Hash, Nd("Parenthesized",
                 <<LParen, Nd("Closure", <<Nd("Params", <<Ident("x")>>), Sp,
                                           Tok("Arrow", "=>"), Sp, Ident("x")>>), RParen>>)>>,
      \* `#for (k, v) in f(x) {}`
      <<Hash, ForNode(Nd("Destructuring", <<LParen, Ident("k"), Tok("Comma", ","), Sp,
                                            Ident("v"), RParen>>),
                      CallNode(Ident("x")))>>,
      \* `#for x in (y => y) {}`
      <<Hash, ForNode(Ident("x"),
                      Nd("Parenthesized",
                         <<LParen, Nd("Closure", <<Nd("Params", <<Ident("y")>>), Sp,
                                                   Tok("Arrow", "=>"), Sp, Ident("y")>>),
                           RParen>>))>>,
      \* `#import (a): b`
      <<Hash, Nd("ModuleImport",
                 <<Tok("Import", "import"), Sp,
                   Nd("Parenthesized", <<LParen, Ident("a"), RParen>>),
                   Tok("Colon", ":"), Sp, Nd("ImportItems", <<Ident("b")>>)>>)>>,
      \* `#f(a: b)`
      <<Hash, CallNode(Nd("Named", <<Ident("a"), Tok("Colon", ":"), Sp, Ident("b")>>))>>,
      \* `#let (a: b) = 1`
      <<Hash, LetNode(Nd("Destructuring",
                         <<LParen, Nd("Named", <<Ident("a"), Tok("Colon", ":"), Sp, Ident("b")>>),
                           RParen>>))>>,
      \* `#a.b`
      <<Hash, Nd("FieldAccess", <<Ident("a"), Tok("Dot", "."), Ident("b")>>)>>,
      \* `#[= a]`, `#[== a]`
      <<Hash, ContentBlockNode(1)>>,
      <<Hash, ContentBlockNode(2)>> }

RECURSIVE Join(_, _, _)
Join(ls, ss, i) ==
    IF i > Len(ls) THEN <<>>
    ELSE (IF i = 1 THEN <<>> ELSE <<ss[i - 1]>>) \o ls[i] \o Join(ls, ss, i + 1)

Documents(lines, seps, max) ==
    UNION { { Nd("Markup", Join(ls, ss, 1)) : ls \in [1..n -> lines], ss \in [1..(n - 1) -> seps] }
            : n \in 1..max }

HeadingDocs == Documents(HeadingLines, {Sp}, MaxHeadingLines)
CommentDocs == Documents(CommentLines, {Sp, Par}, MaxCommentLines)
CodeDocs == Documents(CodeLines, {Sp}, MaxCodeLines)

-----------------------------------------------------------------------------
(* LexicalScopeKind and its predicates.                                    *)

\* identifiers and labels surfaced under every configuration
affect_symbol_always(k) == k \in {"Symbol", "Braced"}
affect_symbol(k) == k = "Symbol"
affect_markup(k) == k = "Braced"
affect_block(k) == k = "Braced"
affect_expr(k) == k = "Braced"
affect_heading(k) == k \in {"Symbol", "Braced"}

-----------------------------------------------------------------------------
(* LexicalKind, LexicalInfo, LexicalHierarchy.                             *)
(* An Option is a sequence of length 0 (None) or 1 (Some).                 *)

None == <<>>
Some(v) == <<v>>

HeadingKind(l) == [tag |-> "Heading", lvl |-> l]
PlainKind(t) == [tag |-> t, lvl |-> 0]
label == PlainKind("Label")
function == PlainKind("Function")
variable == PlainKind("Variable")
\* the variants of LexicalVarKind that no rule constructs
val_ref == PlainKind("ValRef")
label_ref == PlainKind("LabelRef")
bib_key == PlainKind("BibKey")
Block == PlainKind("Block")
LineComment == PlainKind("LineComment")
Space == PlainKind("Space")

LexicalInfo(n, k, r) == [name |-> n, kind |-> k, range |-> r]
Frame(info) == [info |-> info, children |-> <<>>]

\* a finish_hierarchy that wraps every children list, empty or not
finish_hierarchy_always_some(sym, curr) == [info |-> sym, children |-> Some(curr)]

\* fn finish_hierarchy(sym, curr) -> LexicalHierarchy
finish_hierarchy(sym, curr) ==
    [info |-> sym, children |-> IF curr = <<>> THEN None ELSE Some(curr)]

\* LexicalHierarchyWorker::finish_hierarchy: close the top of the stack
FinishTop(st) ==
    LET n == Len(st)
        top == st[n]
        below == st[n - 1]
    IN Append(SubSeq(st, 1, n - 2),
              [below EXCEPT !.children = Append(@, finish_hierarchy(top.info, top.children))])

\* a 'heading_break loop that does not stop at a Block frame
RECURSIVE CloseForHeadingThroughBlocks(_, _)
CloseForHeadingThroughBlocks(st, level) ==
    IF st = <<>> THEN st
    ELSE LET w == st[Len(st)].info.kind
         IN IF (w.tag = "Heading" /\ w.lvl < level) \/ Len(st) <= 1
            THEN st
            ELSE CloseForHeadingThroughBlocks(FinishTop(st), level)

\* the 'heading_break loop of check_node
RECURSIVE CloseForHeading(_, _)
CloseForHeading(st, level) ==
    IF st = <<>> THEN st
    ELSE LET w == st[Len(st)].info.kind
         IN IF \/ (w.tag = "Heading" /\ w.lvl < level)
               \/ w.tag = "Block"
               \/ Len(st) <= 1
            THEN st
            ELSE CloseForHeading(FinishTop(st), level)

\* while stack_height < stack.len() (a heading) or <= (otherwise): finish_hierarchy
RECURSIVE CloseDownTo(_, _, _)
CloseDownTo(st, stack_height, is_heading) ==
    IF (IF is_heading THEN stack_height < Len(st) ELSE stack_height <= Len(st))
    THEN CloseDownTo(FinishTop(st), stack_height, is_heading)
    ELSE st

\* a LineComment arm that merges with whatever frame lies beneath the Space frame
LineCommentArmMergingAnyFrame(st, rng) ==
    LET n == Len(st)
        popSpace == n >= 1 /\ st[n].info.kind = Space
        st1 == IF popSpace THEN SubSeq(st, 1, n - 1) ELSE st
        merge == popSpace /\ n >= 2
        st2 == IF merge THEN SubSeq(st, 1, n - 2) ELSE st1
        start == IF merge THEN st[n - 1].info.range.start ELSE rng.start
    IN Append(st2, Frame(LexicalInfo("", LineComment, [start |-> start, end |-> rng.end])))

\* the LineComment arm of check_node
LineCommentArm(st, rng) ==
    LET n == Len(st)
        popSpace == n >= 1 /\ st[n].info.kind = Space
        st1 == IF popSpace THEN SubSeq(st, 1, n - 1) ELSE st
        merge == popSpace /\ n >= 2 /\ st[n - 1].info.kind = LineComment
        st2 == IF merge THEN SubSeq(st, 1, n - 2) ELSE st1
        start == IF merge THEN st[n - 1].info.range.start ELSE rng.start
    IN Append(st2, Frame(LexicalInfo("", LineComment, [start |-> start, end |-> rng.end])))

-----------------------------------------------------------------------------
(* Navigation used by the classifier and the arms.                         *)

\* LinkedNode::prev_sibling_kind: the previous sibling that is not trivia
RECURSIVE PrevSiblingKind(_)
PrevSiblingKind(p) ==
    IF p = <<>> \/ p[Len(p)] = 1 THEN None
    ELSE LET q == [p EXCEPT ![Len(p)] = @ - 1]
         IN IF IsTrivia(Kind(q)) THEN PrevSiblingKind(q) ELSE Some(Kind(q))

\* ast::Heading::depth: the length of the heading marker
HeadingDepth(p) ==
    LET ms == { i \in 1..Len(Node(p).ch) : Node(p).ch[i].kind = "HeadingMarker" }
    IN IF ms = {} THEN 1
       ELSE NodeLen(Node(p).ch[CHOOSE i \in ms : \A j \in ms : i <= j])

\* Iterator::find over a list of paths: the first one whose kind is in `kinds`, or None
FindFirst(ps, kinds) ==
    LET is == { i \in 1..Len(ps) : Kind(ps[i]) \in kinds }
    IN IF is = {} THEN None ELSE Some(ps[CHOOSE i \in is : \A j \in is : i <= j])

Rev(ps) == [i \in 1..Len(ps) |-> ps[Len(ps) + 1 - i]]

\* ast::Label::get: the text between the angle brackets
LabelName(t) == SubSeq(t, 2, Len(t) - 1)

-----------------------------------------------------------------------------
(* get_ident: the leaf classifier.  Returns Err, Ok(None) or Ok(Some(info)) *)

GetErr == [tag |-> "err", info |-> LexicalInfo("", Space, [start |-> 0, end |-> 0])]
GetNone == [GetErr EXCEPT !.tag = "none"]
GetSome(n, k, p) == [tag |-> "some", info |-> LexicalInfo(n, k, Range(p))]

\* an identifier's kind that also surfaces plain references
ident_kind_with_references(ctx) ==
    IF ctx = "Func" THEN Some(function)
    ELSE IF ctx \in {"Var", "Params"} THEN Some(variable)
    ELSE Some(val_ref)

\* get_ident, the kind of an identifier by the naming context
ident_kind(ctx) ==
    IF ctx = "Func" THEN Some(function)
    ELSE IF ctx \in {"Var", "Params"} THEN Some(variable)
    ELSE None

get_ident(p) ==
    LET node == Node(p)
        k == node.kind
        prev == PrevSiblingKind(p)
    IN
    IF k = "Label" /\ affect_symbol(sk) THEN
        IF prev # None /\ (prev[1] \in {"LeftBracket", "LeftBrace", "LeftParen", "Comma", "Colon"}
                           \/ IsKeyword(prev[1]))
        THEN GetNone
        ELSE IF ~node.ok THEN GetErr
        ELSE GetSome(LabelName(node.text), label, p)
    ELSE IF k = "Ident" /\ affect_symbol(sk) THEN
        IF ~node.ok THEN GetErr
        ELSE IF ident_kind(ident_context) = None THEN GetNone
        ELSE GetSome(node.text, ident_kind(ident_context)[1], p)
    ELSE IF k \in {"Equation", "Raw", "BlockComment"} /\ affect_markup(sk) THEN
        GetSome("", Block, p)
    ELSE IF k \in {"CodeBlock", "ContentBlock"} /\ affect_block(sk) THEN
        GetSome("", Block, p)
    ELSE IF k \in {"Parenthesized", "Destructuring", "Args", "Array", "Dict"} /\ affect_expr(sk) THEN
        GetSome("", Block, p)
    ELSE IF k = "Markup" THEN
        IF TextOf(node) = "" THEN GetNone
        ELSE IF p = <<>> THEN GetNone
        ELSE IF Kind(Parent(p)) = "Heading" /\ affect_heading(sk)
             THEN GetSome(TextOf(node), HeadingKind(HeadingDepth(Parent(p))), p)
             ELSE GetNone
    ELSE GetNone

\* enter_node: the naming context a node sets up
enter_node(k, ctx) ==
    IF k \in {"RefMarker", "LetBinding"} THEN "Ref"
    ELSE IF k = "Closure" THEN "Func"
    ELSE IF k = "Params" THEN "Params"
    ELSE ctx

-----------------------------------------------------------------------------
(* The control stack: pending calls and continuations of check_node.       *)
(*   check   check_node(path)                                              *)
(*   with    check_node_with(path, ctx)                                    *)
(*   unwith  the tail of check_node_with: ident_context = parent_context   *)
(*   close   the tail of the symbol branch: close down to h, exit_node     *)
(*   body    the second half of the Closure arm (n = `current`)            *)
(*   cclose  the tail of the Closure arm: close down to h, exit_node       *)
(*   named   the second half of the Named arm                              *)
(*   exit    exit_node(ctx)                                                *)

Item(op, path, ctx, h, n) == [op |-> op, path |-> path, ctx |-> ctx, h |-> h, n |-> n]
Call(path) == Item("check", path, "Ref", 0, 0)
CallWith(path, ctx) == Item("with", path, ctx, 0, 0)
Exit(path, checkpoint) == Item("exit", path, checkpoint, 0, 0)

\* for child in node.children() { self.check_node(child)?; }
CallChildren(p) == [i \in 1..Len(Node(p).ch) |-> Call(Append(p, i))]

\* check_opt_node_with(node, context)
CallOptWith(opt, ctx) == IF opt = None THEN <<>> ELSE <<CallWith(opt[1], ctx)>>

\* check_first_sub_expr(nodes, after_offset): always under IdentContext::Ref
check_first_sub_expr(nodes, after_offset) ==
    LET body == FindFirst(nodes, ExprKinds)
    IN IF body = None THEN <<>>
       ELSE IF after_offset # None /\ after_offset[1] >= Offset(body[1]) THEN <<>>
       ELSE <<CallWith(body[1], "Ref")>>

Sentinel == Frame(LexicalInfo("deadbeef", HeadingKind(-1), [start |-> 0, end |-> 0]))

Walking == pc = "walk" /\ ctl # <<>>
Cur == Head(ctl)
Checking(kinds) == Walking /\ Cur.op = "check" /\ get_ident(Cur.path).tag = "none"
                   /\ Kind(Cur.path) \in kinds

-----------------------------------------------------------------------------
(* Actions.                                                                *)

\* get_lexical_hierarchy, lines 20-32: push the sentinel, call check_node(root)
Start ==
    /\ pc = "init"
    /\ stack' = <<Sentinel>>
    /\ ctl' = <<Call(<<>>)>>
    /\ pc' = "walk"
    /\ UNCHANGED <<invocation, first, doc, sk, ident_context, res, result>>

\* check_node: get_ident fails, the error propagates
Fail ==
    /\ Walking /\ Cur.op = "check"
    /\ get_ident(Cur.path).tag = "err"
    /\ pc' = "unwind"
    /\ ctl' = Tail(ctl)
    /\ UNCHANGED <<invocation, first, doc, sk, stack, ident_context, res, result>>

\* an error travels up the call stack: only check_node_with restores the context
Unwind ==
    /\ pc = "unwind" /\ ctl # <<>>
    /\ ident_context' = IF Cur.op = "unwith" THEN Cur.ctx ELSE ident_context
    /\ ctl' = Tail(ctl)
    /\ UNCHANGED <<invocation, first, doc, sk, stack, pc, res, result>>

\* check_node, the branch of a node that is a symbol (lines 260-282)
CheckSymbol ==
    /\ Walking /\ Cur.op = "check"
    /\ get_ident(Cur.path).tag = "some"
    /\ LET symbol == get_ident(Cur.path).info
           is_heading == symbol.kind.tag = "Heading"
           closed == IF is_heading THEN CloseForHeading(stack, symbol.kind.lvl) ELSE stack
           pushed == Append(closed, Frame(symbol))
           kids == IF Kind(Cur.path) # "ModuleImport" THEN CallChildren(Cur.path) ELSE <<>>
       IN /\ stack' = pushed
          /\ ident_context' = enter_node(Kind(Cur.path), ident_context)
          /\ ctl' = kids \o <<Item("close", Cur.path, ident_context, Len(pushed),
                                   IF is_heading THEN 1 ELSE 0)>> \o Tail(ctl)
    /\ UNCHANGED <<invocation, first, doc, sk, pc, res, result>>

\* check_node, lines 284-292 and exit_node
CloseSymbol ==
    /\ Walking /\ Cur.op = "close"
    /\ stack' = CloseDownTo(stack, Cur.h, Cur.n = 1)
    /\ ident_context' = Cur.ctx
    /\ ctl' = Tail(ctl)
    /\ UNCHANGED <<invocation, first, doc, sk, pc, res, result>>

\* SyntaxKind::LineComment arm
CheckLineComment ==
    /\ Checking({"LineComment"})
    /\ stack' = LineCommentArm(stack, Range(Cur.path))
    /\ ctl' = Tail(ctl)
    /\ UNCHANGED <<invocation, first, doc, sk, ident_context, pc, res, result>>

\* SyntaxKind::Space arm
CheckSpace ==
    /\ Checking({"Space"})
    /\ stack' = Append(stack, Frame(LexicalInfo("", Space, Range(Cur.path))))
    /\ ctl' = Tail(ctl)
    /\ UNCHANGED <<invocation, first, doc, sk, ident_context, pc, res, result>>

\* SyntaxKind::LetBinding arm
CheckLetBinding ==
    /\ Checking({"LetBinding"})
    /\ LET kids == Children(Cur.path)
           pattern == FindFirst(kids, PatternKinds)
           name_offset == IF pattern = None THEN None ELSE Some(Offset(pattern[1]))
           calls == IF pattern # None /\ Kind(pattern[1]) = "Closure"
                    THEN <<CallWith(pattern[1], "Ref")>>
                    ELSE CallOptWith(pattern, "Var")
                         \o check_first_sub_expr(Rev(kids), name_offset)
       IN ctl' = calls \o <<Exit(Cur.path, ident_context)>> \o Tail(ctl)
    /\ ident_context' = enter_node("LetBinding", ident_context)
    /\ UNCHANGED <<invocation, first, doc, sk, stack, pc, res, result>>

\* SyntaxKind::ForLoop arm
CheckForLoop ==
    /\ Checking({"ForLoop"})
    /\ LET kids == Children(Cur.path)
           pattern == FindFirst(kids, PatternKinds)
           ins == { i \in 1..Len(kids) : Kind(kids[i]) = "In" }
           from == IF ins = {} THEN Len(kids) + 1 ELSE CHOOSE i \in ins : \A j \in ins : i <= j
           iterable == FindFirst(SubSeq(kids, from, Len(kids)), ExprKinds)
           iterable_offset == IF iterable = None THEN None ELSE Some(Offset(iterable[1]))
       IN ctl' = CallOptWith(iterable, "Ref") \o CallOptWith(pattern, "Var")
                 \o check_first_sub_expr(Rev(kids), iterable_offset)
                 \o <<Exit(Cur.path, ident_context)>> \o Tail(ctl)
    /\ UNCHANGED <<invocation, first, doc, sk, stack, ident_context, pc, res, result>>

\* SyntaxKind::Closure arm, lines 364-370: the name
CheckClosure ==
    /\ Checking({"Closure"})
    /\ LET kids == Children(Cur.path)
           current == Len(stack[Len(stack)].children)
           name == IF kids # <<>> /\ Kind(kids[1]) = "Ident"
                   THEN <<CallWith(kids[1], "Func")>> ELSE <<>>
       IN ctl' = name \o <<Item("body", Cur.path, ident_context, 0, current)>> \o Tail(ctl)
    /\ ident_context' = enter_node("Closure", ident_context)
    /\ UNCHANGED <<invocation, first, doc, sk, stack, pc, res, result>>

\* the name entry taken over as it is, its range left on the name token
ClosureSymbolKeepsNameRange(top, current, rng) ==
    IF current = Len(top.children)
    THEN LexicalInfo("<anonymous>", function, rng)
    ELSE top.children[Len(top.children)].info

\* SyntaxKind::Closure arm, lines 376-388: the entry of the function frame
ClosureSymbol(top, current, rng) ==
    IF current = Len(top.children)
    THEN LexicalInfo("<anonymous>", function, rng)
    ELSE [top.children[Len(top.children)].info EXCEPT !.range = rng]

\* SyntaxKind::Closure arm, lines 371-393: the function frame and the body
ClosureBody ==
    /\ Walking /\ Cur.op = "body"
    /\ LET body == FindFirst(Rev(Children(Cur.path)), ExprKinds)
           n == Len(stack)
           top == stack[n]
           symbol == ClosureSymbol(top, Cur.n, Range(Cur.path))
           rest == IF Cur.n = Len(top.children) THEN stack
                   ELSE [stack EXCEPT ![n].children = SubSeq(@, 1, Len(@) - 1)]
           pushed == Append(rest, Frame(symbol))
       IN IF body = None
          THEN /\ stack' = stack
               /\ ctl' = <<Exit(Cur.path, Cur.ctx)>> \o Tail(ctl)
          ELSE /\ stack' = pushed
               /\ ctl' = <<CallWith(body[1], "Ref"),
                           Item("cclose", Cur.path, Cur.ctx, Len(pushed), 0)>> \o Tail(ctl)
    /\ UNCHANGED <<invocation, first, doc, sk, ident_context, pc, res, result>>

\* SyntaxKind::Closure arm, lines 394-396 and exit_node
ClosureClose ==
    /\ Walking /\ Cur.op = "cclose"
    /\ stack' = CloseDownTo(stack, Cur.h, FALSE)
    /\ ident_context' = Cur.ctx
    /\ ctl' = Tail(ctl)
    /\ UNCHANGED <<invocation, first, doc, sk, pc, res, result>>

\* SyntaxKind::FieldAccess arm
CheckFieldAccess ==
    /\ Checking({"FieldAccess"})
    /\ ctl' = check_first_sub_expr(Children(Cur.path), None)
              \o <<Exit(Cur.path, ident_context)>> \o Tail(ctl)
    /\ UNCHANGED <<invocation, first, doc, sk, stack, ident_context, pc, res, result>>

\* SyntaxKind::Named arm, line 403: the value
CheckNamed ==
    /\ Checking({"Named"})
    /\ ctl' = check_first_sub_expr(Rev(Children(Cur.path)), None)
              \o <<Item("named", Cur.path, ident_context, 0, 0)>> \o Tail(ctl)
    /\ UNCHANGED <<invocation, first, doc, sk, stack, ident_context, pc, res, result>>

\* SyntaxKind::Named arm, lines 405-408: the name of a parameter
NamedIdent ==
    /\ Walking /\ Cur.op = "named"
    /\ LET ident == FindFirst(Children(Cur.path), {"Ident"})
       IN ctl' = (IF ident_context = "Params" THEN CallOptWith(ident, "Var") ELSE <<>>)
                 \o <<Exit(Cur.path, Cur.ctx)>> \o Tail(ctl)
    /\ UNCHANGED <<invocation, first, doc, sk, stack, ident_context, pc, res, result>>

\* an arm of trivia that leaves a marker frame, as the Space arm does
CheckTriviaPushingFrame ==
    /\ Walking /\ Cur.op = "check" /\ get_ident(Cur.path).tag = "none"
    /\ Kind(Cur.path) \notin {"LineComment", "Space", "LetBinding", "ForLoop", "Closure",
                              "FieldAccess", "Named"}
    /\ IsTrivia(Kind(Cur.path)) \/ IsKeyword(Kind(Cur.path)) \/ IsError(Kind(Cur.path))
    /\ ctl' = Tail(ctl)
    /\ stack' = Append(stack, Frame(LexicalInfo("", Space, Range(Cur.path))))
    /\ UNCHANGED <<invocation, first, doc, sk, ident_context, pc, res, result>>

\* the arm of trivia, keywords and errors: nothing
CheckTrivia ==
    /\ Walking /\ Cur.op = "check" /\ get_ident(Cur.path).tag = "none"
    /\ Kind(Cur.path) \notin {"LineComment", "Space", "LetBinding", "ForLoop", "Closure",
                              "FieldAccess", "Named"}
    /\ IsTrivia(Kind(Cur.path)) \/ IsKeyword(Kind(Cur.path)) \/ IsError(Kind(Cur.path))
    /\ ctl' = Tail(ctl)
    /\ UNCHANGED <<invocation, first, doc, sk, stack, ident_context, pc, res, result>>

\* the default arm: recurse into every child
CheckDefault ==
    /\ Walking /\ Cur.op = "check" /\ get_ident(Cur.path).tag = "none"
    /\ Kind(Cur.path) \notin {"LineComment", "Space", "LetBinding", "ForLoop", "Closure",
                              "FieldAccess", "Named"}
    /\ ~(IsTrivia(Kind(Cur.path)) \/ IsKeyword(Kind(Cur.path)) \/ IsError(Kind(Cur.path)))
    /\ ctl' = CallChildren(Cur.path) \o <<Exit(Cur.path, ident_context)>> \o Tail(ctl)
    /\ ident_context' = enter_node(Kind(Cur.path), ident_context)
    /\ UNCHANGED <<invocation, first, doc, sk, stack, pc, res, result>>

\* exit_node(checkpoint)
ExitNode ==
    /\ Walking /\ Cur.op = "exit"
    /\ ident_context' = Cur.ctx
    /\ ctl' = Tail(ctl)
    /\ UNCHANGED <<invocation, first, doc, sk, stack, pc, res, result>>

\* check_node_with, lines 458-461
CheckNodeWith ==
    /\ Walking /\ Cur.op = "with"
    /\ ident_context' = Cur.ctx
    /\ ctl' = <<Call(Cur.path), Item("unwith", Cur.path, ident_context, 0, 0)>> \o Tail(ctl)
    /\ UNCHANGED <<invocation, first, doc, sk, stack, pc, res, result>>

\* check_node_with, lines 463-464
WithReturn ==
    /\ Walking /\ Cur.op = "unwith"
    /\ ident_context' = Cur.ctx
    /\ ctl' = Tail(ctl)
    /\ UNCHANGED <<invocation, first, doc, sk, stack, pc, res, result>>

\* while worker.stack.len() > 1 { worker.finish_hierarchy(); }
RECURSIVE Drain(_)
Drain(st) == IF Len(st) > 1 THEN Drain(FinishTop(st)) ELSE st

\* a later call that begins in the naming context of a binding
AgainInBindingContext ==
    /\ pc = "done" /\ invocation < MaxCalls
    /\ first' = IF invocation = 1 THEN Some([res |-> res, result |-> result]) ELSE first
    /\ invocation' = invocation + 1
    /\ stack' = <<>> /\ ident_context' = "Var" /\ ctl' = <<>>
    /\ pc' = "init" /\ res' = "none" /\ result' = None
    /\ UNCHANGED <<doc, sk>>

\* get_lexical_hierarchy is called again on the same tree with the same scope kind:
\* lines 20-23 construct a new worker, nothing of the previous one is kept
Again ==
    /\ pc = "done" /\ invocation < MaxCalls
    /\ first' = IF invocation = 1 THEN Some([res |-> res, result |-> result]) ELSE first
    /\ invocation' = invocation + 1
    /\ stack' = <<>> /\ ident_context' = "Ref" /\ ctl' = <<>>
    /\ pc' = "init" /\ res' = "none" /\ result' = None
    /\ UNCHANGED <<doc, sk>>

\* a driver that hands out whatever was built, failed walk or not
FinishPartial ==
    /\ pc \in {"walk", "unwind"} /\ ctl = <<>>
    /\ res' = IF pc = "walk" THEN "Ok" ELSE "Err"
    /\ stack' = <<>>
    /\ result' = Some(Drain(stack)[1].children)
    /\ pc' = "done"
    /\ UNCHANGED <<invocation, first, doc, sk, ident_context, ctl>>

\* get_lexical_hierarchy, lines 32-45: check_node has returned
Finish ==
    /\ pc \in {"walk", "unwind"} /\ ctl = <<>>
    /\ res' = IF pc = "walk" THEN "Ok" ELSE "Err"
    /\ stack' = IF pc = "walk" THEN <<>> ELSE Drain(stack)
    /\ result' = IF pc = "walk" THEN Some(Drain(stack)[1].children) ELSE None
    /\ pc' = "done"
    /\ UNCHANGED <<invocation, first, doc, sk, ident_context, ctl>>

-----------------------------------------------------------------------------

Docs == HeadingDocs \cup CommentDocs \cup CodeDocs

\* the worker as constructed at lines 20-23
Init ==
    /\ doc \in Docs
    /\ sk \in {"Symbol", "Braced"}
    /\ stack = <<>>
    /\ ident_context = "Ref"
    /\ ctl = <<>>
    /\ pc = "init"
    /\ res = "none"
    /\ result = None
    /\ invocation = 1
    /\ first = None

Next ==
    \/ Start
    \/ Fail
    \/ Unwind
    \/ CheckSymbol
    \/ CloseSymbol
    \/ CheckLineComment
    \/ CheckSpace
    \/ CheckLetBinding
    \/ CheckForLoop
    \/ CheckClosure
    \/ ClosureBody
    \/ ClosureClose
    \/ CheckFieldAccess
    \/ CheckNamed
    \/ NamedIdent
    \/ CheckTrivia
    \/ CheckDefault
    \/ ExitNode
    \/ CheckNodeWith
    \/ WithReturn
    \/ Finish
    \/ Again

Spec == Init /\ [][Next]_vars

-----------------------------------------------------------------------------
(* Reading a forest.                                                       *)

Kids(node) == IF node.children = None THEN <<>> ELSE node.children[1]

\* every node of a forest, at any depth
RECURSIVE NodesOf(_)
NodesOf(f) == UNION { {f[i]} \cup NodesOf(Kids(f[i])) : i \in 1..Len(f) }

\* every entry of a forest with its position (the path of indices leading to it)
RECURSIVE EntriesOf(_, _)
EntriesOf(f, at) ==
    UNION { {[pos |-> Append(at, i), info |-> f[i].info]}
            \cup EntriesOf(Kids(f[i]), Append(at, i)) : i \in 1..Len(f) }

Returned == pc = "done" /\ result # None
Forest == result[1]
ForestEntries == EntriesOf(Forest, <<>>)

\* every node closed so far: the children lists of the open frames, at any depth
ClosedNodes == UNION { NodesOf(stack[i].children) : i \in 1..Len(stack) }

-----------------------------------------------------------------------------
(* C1: every node of the returned forest, at any depth, has children = None *)
(* exactly when it has no nested entry: children is never Some of an empty *)
(* list.  The same holds of every node closed during the walk.             *)
C1_ChildrenNoneIffEmpty ==
    /\ \A n \in ClosedNodes : (n.children = None) <=> (Len(Kids(n)) = 0)
    /\ Returned => \A n \in NodesOf(Forest) :
                      (n.children = None) <=> (Len(Kids(n)) = 0)

\* a returned forest with a node that has nested entries and a node that has none
C1_Witness ==
    /\ Returned
    /\ \E n \in NodesOf(Forest) : n.children = None
    /\ \E n \in NodesOf(Forest) : n.children # None /\ Len(Kids(n)) > 0

-----------------------------------------------------------------------------
(* Reading the document.                                                   *)

RECURSIVE PathsIn(_, _)
PathsIn(n, at) == {at} \cup UNION { PathsIn(n.ch[i], Append(at, i)) : i \in 1..Len(n.ch) }
AllPaths == PathsIn(doc, <<>>)

IsPrefix(q, p) == Len(q) <= Len(p) /\ SubSeq(p, 1, Len(q)) = q
Inside(p, q) == IsPrefix(q, p) /\ q # p     \* node p lies strictly inside node q

\* the nodes the classifier makes a heading, and the ones it makes a Group
IsHeadingNode(p) == get_ident(p).tag = "some" /\ get_ident(p).info.kind.tag = "Heading"
IsGroupNode(p) == get_ident(p).tag = "some" /\ get_ident(p).info.kind = Block
HeadingPaths == { p \in AllPaths : IsHeadingNode(p) }
HeadingInfo(p) == get_ident(p).info
LevelOf(p) == HeadingInfo(p).kind.lvl

\* the innermost Group node around p, or None at the top level
ScopeOf(p) ==
    LET gs == { q \in AllPaths : Inside(p, q) /\ IsGroupNode(q) }
    IN IF gs = {} THEN None ELSE Some(CHOOSE q \in gs : \A r \in gs : Len(r) <= Len(q))

\* the entry above an entry of the forest (the sentinel's for a top-level entry)
ParentInfo(entries, e) ==
    IF Len(e.pos) = 1 THEN Sentinel.info
    ELSE (CHOOSE x \in entries : x.pos = Parent(e.pos)).info

\* the nearest heading before p, in p's scope, of a strictly smaller level; failing
\* that the Group around p; failing that the top level
ExpectedParent(p) ==
    LET before == { q \in HeadingPaths : /\ Offset(q) < Offset(p)
                                         /\ ScopeOf(q) = ScopeOf(p)
                                         /\ LevelOf(q) < LevelOf(p) }
    IN IF before # {}
       THEN HeadingInfo(CHOOSE q \in before : \A r \in before : Offset(r) <= Offset(q))
       ELSE IF ScopeOf(p) # None THEN get_ident(ScopeOf(p)[1]).info
       ELSE Sentinel.info

(* C2: in the returned forest every heading entry is a direct child of the  *)
(* nearest preceding heading of strictly smaller level in its block scope,  *)
(* or of the enclosing block, or is a top-level entry when there is none;   *)
(* headings under one parent are siblings in document order.                *)
C2_HeadingNesting ==
    Returned =>
        /\ \A p \in HeadingPaths : \A e \in ForestEntries :
              e.info = HeadingInfo(p) => ParentInfo(ForestEntries, e) = ExpectedParent(p)
        /\ \A e1, e2 \in ForestEntries :
              (/\ e1.info.kind.tag = "Heading" /\ e2.info.kind.tag = "Heading"
               /\ Parent(e1.pos) = Parent(e2.pos)
               /\ e1.info.range.start < e2.info.range.start)
              => e1.pos[Len(e1.pos)] < e2.pos[Len(e2.pos)]

-----------------------------------------------------------------------------
\* the index of the topmost open Group frame, 0 when there is none
TopGroup(st) ==
    LET gs == { i \in 1..Len(st) : st[i].info.kind = Block }
    IN IF gs = {} THEN 0 ELSE CHOOSE i \in gs : \A j \in gs : j <= i

\* check_node is about to classify a heading while a Group frame is open
HeadingMeetsGroup ==
    /\ Walking /\ Cur.op = "check" /\ IsHeadingNode(Cur.path)
    /\ TopGroup(stack) > 0

\* the step leaves the open Group and everything beneath it in place
GroupKept ==
    LET i == TopGroup(stack)
    IN /\ Len(stack') > i
       /\ SubSeq(stack', 1, i - 1) = SubSeq(stack, 1, i - 1)
       /\ stack'[i].info = stack[i].info
       /\ IsPrefix(stack[i].children, stack'[i].children)
       /\ stack'[Len(stack')].info = HeadingInfo(Cur.path)

\* a heading inside a Group hangs under that Group or under a heading of the same Group
InnerHeadingsStayInside ==
    Returned =>
        \A p \in HeadingPaths : \A e \in ForestEntries :
            (e.info = HeadingInfo(p) /\ ScopeOf(p) # None) =>
                \/ ParentInfo(ForestEntries, e) = get_ident(ScopeOf(p)[1]).info
                \/ \E q \in HeadingPaths : /\ ScopeOf(q) = ScopeOf(p)
                                           /\ ParentInfo(ForestEntries, e) = HeadingInfo(q)

(* C3: while a Group (Block) frame is open, a heading met inside that block *)
(* closes neither the Group frame nor any frame beneath it: the closing     *)
(* loop stops at the Group, the frames beneath it stay as they were, the    *)
(* heading is pushed above the Group, and in the returned forest it lies    *)
(* under the Group, never under a heading that precedes the block.          *)
C3_GroupStopsHeadingClose ==
    /\ [][HeadingMeetsGroup => GroupKept]_vars
    /\ []InnerHeadingsStayInside

\* a heading was pushed above a Group that has, beneath it, an open heading of
\* an equal or deeper level (which the loop would otherwise have closed)
C3_Witness ==
    /\ pc = "walk" /\ TopGroup(stack) > 0
    /\ LET i == TopGroup(stack)
           top == stack[Len(stack)].info.kind
       IN /\ Len(stack) > i /\ top.tag = "Heading"
          /\ \E j \in 2..(i - 1) : /\ stack[j].info.kind.tag = "Heading"
                                   /\ stack[j].info.kind.lvl >= top.lvl

-----------------------------------------------------------------------------
(* Line comments among the children of a node q.                           *)

KindAt(q, i) == Node(q).ch[i].kind
IsComment(q, i) == i \in 1..Len(Node(q).ch) /\ KindAt(q, i) = "LineComment"
\* comments i and j = i + 2 of q have one whitespace node and nothing else between them
Adjacent(q, i, j) == /\ j = i + 2 /\ IsComment(q, i) /\ IsComment(q, j)
                     /\ KindAt(q, i + 1) = "Space"
\* a..b is a maximal run of two or more comments, each adjacent to the next
IsRun(q, a, b) ==
    /\ a < b /\ IsComment(q, a) /\ IsComment(q, b)
    /\ \A k \in a..(b - 2) : (k - a) % 2 = 0 => Adjacent(q, k, k + 2)
    /\ (b - a) % 2 = 0
    /\ ~Adjacent(q, a - 2, a) /\ ~Adjacent(q, b, b + 2)
Runs == UNION { { r \in { <<q, a, b>> : a, b \in 1..Len(Node(q).ch) } : IsRun(r[1], r[2], r[3]) }
                : q \in AllPaths }
Overlaps(r1, r2) == r1.start < r2.end /\ r2.start < r1.end
CommentEntries == { e \in ForestEntries : e.info.kind = LineComment }

(* C4: a run of two or more line comments with nothing but whitespace       *)
(* between consecutive comments yields exactly one CommentRun entry, whose  *)
(* range runs from the first comment's start to the last comment's end.     *)
C4_RunMergedIntoOne ==
    Returned =>
        \A r \in Runs :
            LET span == [start |-> Range(Append(r[1], r[2])).start,
                         end |-> Range(Append(r[1], r[3])).end]
                es == { e \in CommentEntries : Overlaps(e.info.range, span) }
            IN Cardinality(es) = 1 /\ \A e \in es : e.info.range = span

\* i and j are neighbouring comments of q kept apart by a blank line or other content,
\* and neither belongs to a run
Separated(q, i, j) ==
    /\ i < j /\ IsComment(q, i) /\ IsComment(q, j)
    /\ \A k \in (i + 1)..(j - 1) : ~IsComment(q, k)
    /\ ~Adjacent(q, i, j)
    /\ ~Adjacent(q, i - 2, i) /\ ~Adjacent(q, j, j + 2)
SeparatedPairs ==
    UNION { { r \in { <<q, i, j>> : i, j \in 1..Len(Node(q).ch) } : Separated(r[1], r[2], r[3]) }
            : q \in AllPaths }

(* C5: two line comments with a blank line or any other content between    *)
(* them are not merged: the forest holds an entry for each, with the range  *)
(* of its own comment, and neither entry is nested inside the other.        *)
C5_SeparatedCommentsStayApart ==
    Returned =>
        \A r \in SeparatedPairs :
            \E e1, e2 \in CommentEntries :
                /\ e1.info.range = Range(Append(r[1], r[2]))
                /\ e2.info.range = Range(Append(r[1], r[3]))
                /\ ~IsPrefix(e1.pos, e2.pos) /\ ~IsPrefix(e2.pos, e1.pos)

-----------------------------------------------------------------------------
ImportPaths == { q \in AllPaths : Kind(q) = "ModuleImport" }
\* range r lies within the range of node q without being all of it
StrictlyWithin(r, q) ==
    /\ Range(q).start <= r.start /\ r.end <= Range(q).end
    /\ r # Range(q)

(* C6: under either scope configuration no symbol entry of the returned     *)
(* forest comes from a node inside a module import statement (whitespace    *)
(* marker entries are left aside).                                          *)
C6_ImportContributesNothing ==
    Returned =>
        \A q \in ImportPaths : \A e \in ForestEntries :
            e.info.kind # Space => ~StrictlyWithin(e.info.range, q)

-----------------------------------------------------------------------------
\* check_node is about to classify a label or identifier whose cast fails
CastFailing == Walking /\ Cur.op = "check" /\ get_ident(Cur.path).tag = "err"

(* C7: when the cast of a label or identifier fails during the walk, the    *)
(* walk is abandoned and get_lexical_hierarchy returns None, whatever was   *)
(* built before; a forest is returned only after a walk that succeeded.     *)
C7_CastFailureYieldsNone ==
    /\ [][/\ CastFailing => pc' = "unwind"
          /\ pc = "unwind" => /\ pc' \in {"unwind", "done"}
                              /\ result' = None
                              /\ (pc' = "done" => res' = "Err")]_vars
    /\ [](pc = "done" => (result = None <=> res = "Err"))

\* a failed call that had already closed entries under the sentinel
C7_Witness ==
    /\ pc = "done" /\ res = "Err" /\ result = None
    /\ Len(stack) = 1 /\ stack[1].children # <<>>

-----------------------------------------------------------------------------
(* Closures.                                                               *)

ClosurePaths == { q \in AllPaths : Kind(q) = "Closure" }
ParamsPaths == { q \in AllPaths : Kind(q) = "Params" }
Within(r, q) == Range(q).start <= r.start /\ r.end <= Range(q).end

\* a closure that opens with its name, as in `let f(x) = x`
IsNamedClosure(q) ==
    /\ Kind(q) = "Closure"
    /\ Node(q).ch # <<>> /\ Kind(Append(q, 1)) = "Ident"

\* every entry built so far: the open frames above the sentinel and all that has
\* been closed beneath any frame
LiveEntries ==
    { [pos |-> <<i>>, info |-> stack[i].info] : i \in 2..Len(stack) }
    \cup UNION { EntriesOf(stack[i].children, <<i>>) : i \in 1..Len(stack) }

\* C8 as the specification states it: under Braced no Function, Variable or Label entry
C8_BracedHasNoNamedEntry ==
    (sk = "Braced" /\ Returned) =>
        \A e \in ForestEntries : e.info.kind \notin {function, variable, label}

(* C8: under Braced the returned forest holds no Variable and no Label      *)
(* entry, and every Function entry is the synthesized "<anonymous>" entry   *)
(* whose range is that of a closure node; the parameter list of a closure   *)
(* yields no Group entry.                                                   *)
C8_BracedOnlyAnonymousFunctions ==
    (sk = "Braced" /\ Returned) =>
        \A e \in ForestEntries :
            /\ e.info.kind \notin {variable, label}
            /\ e.info.kind = function =>
                   /\ e.info.name = "<anonymous>"
                   /\ \E q \in ClosurePaths : e.info.range = Range(q)
            /\ e.info.kind = Block => \A q \in ParamsPaths : e.info.range # Range(q)

\* Braced, a named closure in the document, its anonymous entry in the forest
C8_Witness ==
    /\ sk = "Braced" /\ Returned
    /\ \E q \in ClosurePaths : \E e \in ForestEntries :
           /\ IsNamedClosure(q)
           /\ e.info = LexicalInfo("<anonymous>", function, Range(q))

\* check_node of a let binding of a named closure is about to return
LetOfNamedClosureDone(p) ==
    /\ Walking /\ Cur.op = "exit" /\ Cur.path = p
    /\ Kind(p) = "LetBinding"
    /\ \E i \in 1..Len(Node(p).ch) :
           /\ FindFirst(Children(p), PatternKinds) = Some(Append(p, i))
           /\ IsNamedClosure(Append(p, i))

BoundClosure(p) == FindFirst(Children(p), PatternKinds)[1]

(* C9: under Symbol, when a let binding of a named closure has been         *)
(* processed, exactly one entry has the closure's range, it is the Function *)
(* entry named by the closure's identifier, no entry is left on the name    *)
(* token, and no Variable entry lies within the parameter list.             *)
C9_LetClosureYieldsOneFunction ==
    \A p \in AllPaths :
        (sk = "Symbol" /\ LetOfNamedClosureDone(p)) =>
            LET c == BoundClosure(p)
                name == Append(c, 1)
                at == { e \in LiveEntries : e.info.range = Range(c) }
            IN /\ Cardinality(at) = 1
               /\ \A e \in at : e.info.kind = function /\ e.info.name = TextOf(Node(name))
               /\ \A e \in LiveEntries :
                      /\ e.info.range # Range(name)
                      /\ e.info.kind = variable =>
                             \A q \in ParamsPaths : Inside(q, c) => ~Within(e.info.range, q)

\* such a binding has just been processed under Symbol
C9_Witness ==
    \E p \in AllPaths :
        /\ sk = "Symbol" /\ LetOfNamedClosureDone(p)
        /\ \E e \in LiveEntries :
               e.info = LexicalInfo("f", function, Range(BoundClosure(p)))

-----------------------------------------------------------------------------
(* C10: on success the top-level entries of the returned forest are in     *)
(* document order: an earlier entry never starts after a later one.        *)
C10_TopLevelInDocumentOrder ==
    Returned =>
        \A i, j \in 1..Len(Forest) :
            i < j => Forest[i].info.range.start <= Forest[j].info.range.start

-----------------------------------------------------------------------------
(* Entries over time.                                                      *)

\* the entries in existence: built so far during the walk, returned after it
Entries ==
    IF pc = "done" THEN (IF result = None THEN {} ELSE ForestEntries) ELSE LiveEntries

\* entry e lives on as entry f: the same entry, or the entry of a closure's name
\* widened to the closure, or a comment merged into a longer run
LivesOnAs(e, f) ==
    /\ f.info.name = e.info.name /\ f.info.kind = e.info.kind
    /\ \/ f.info.range = e.info.range
       \/ /\ e.info.kind \in {function, LineComment}
          /\ f.info.range.start <= e.info.range.start
          /\ e.info.range.end <= f.info.range.end

(* C11: on a successful traversal no symbol is lost: an entry accepted by   *)
(* the classifier, or synthesized for a closure or a comment, stays among   *)
(* the entries at every later step and is in the returned forest.           *)
C11_NoSymbolLost ==
    [][(pc = "walk" /\ pc' # "unwind") =>
           \A e \in LiveEntries :
               e.info.kind # Space => \E f \in Entries' : LivesOnAs(e, f)]_vars

-----------------------------------------------------------------------------
-----------------------------------------------------------------------------
NamedKinds == {label, function, variable, val_ref, label_ref, bib_key}

(* C13: the reserved roles are never emitted: no frame pushed on the stack  *)
(* and no entry closed or returned has the kind ValRef, LabelRef or BibKey; *)
(* the named kinds produced are Label, Function and Variable only.          *)
C13_ReservedRolesNeverEmitted ==
    \A e \in Entries :
        /\ e.info.kind \notin {val_ref, label_ref, bib_key}
        /\ e.info.kind \in NamedKinds => e.info.kind \in {label, function, variable}

\* a returned forest with all three named kinds, built from references too
C13_Witness ==
    /\ Returned
    /\ \E q \in AllPaths : Kind(q) = "FuncCall"
    /\ \E e \in ForestEntries : e.info.kind = function
    /\ \E e \in ForestEntries : e.info.kind = variable

-----------------------------------------------------------------------------
\* the kinds of an entry of the output: Heading, a named kind, Block, LineComment
IsOutputKind(k) ==
    k.tag = "Heading" \/ k \in NamedKinds \/ k = Block \/ k = LineComment

(* C14: every entry of the returned forest, at any depth, is a Heading, a   *)
(* named entry, a Block or a LineComment: the Space frames pushed for the   *)
(* merging of comments are no entries of the output and no parents of       *)
(* entries.                                                                 *)
C14_NoSpaceEntryInOutput ==
    Returned =>
        /\ \A e \in ForestEntries : IsOutputKind(e.info.kind)
        /\ \A n \in NodesOf(Forest) : n.info.kind = Space => Kids(n) = <<>>

-----------------------------------------------------------------------------
\* every node closed so far, the returned ones included
AllClosed == ClosedNodes \cup (IF result = None THEN {} ELSE NodesOf(result[1]))

\* frame i of the stack is gone after the step
FrameLeaves(i) == i > Len(stack') \/ stack'[i].info # stack[i].info

\* a step of a call closes every frame that leaves the stack and keeps every
\* closed node
ClosesAndKeeps ==
    pc \in {"walk", "unwind"} =>
        /\ \A i \in 2..Len(stack) :
               FrameLeaves(i) => \E n \in AllClosed' : n.info = stack[i].info
        /\ \A n \in ClosedNodes : n \in AllClosed'

(* C15: every frame pushed above the sentinel is closed: when it leaves the *)
(* stack a node with its entry is among the closed nodes; and a closed node *)
(* stays as it is: it is never removed from the list it was appended to or  *)
(* changed.                                                                 *)
C15_ClosedOnceAndKept == [][ClosesAndKeeps]_vars

-----------------------------------------------------------------------------
\* the closures whose body is being processed: the pending tails of the Closure arm
OpenClosures == { i \in 1..Len(ctl) : ctl[i].op = "cclose" }

\* the Function frame a closure pushed is still where it was pushed
FunctionFrameInPlace(it) ==
    /\ Len(stack) >= it.h
    /\ stack[it.h].info.kind = function
    /\ stack[it.h].info.range = Range(it.path)

\* the close loop of a closure takes the stack back to its height on entry and
\* leaves the Function node as the last child of the frame that was on top
ClosureCloseIsNeutral ==
    (Walking /\ Cur.op = "cclose" /\ pc' = "walk") =>
        /\ Len(stack') = Cur.h - 1
        /\ LET kids == stack'[Cur.h - 1].children
           IN /\ kids # <<>>
              /\ kids[Len(kids)].info.kind = function
              /\ kids[Len(kids)].info.range = Range(Cur.path)
        /\ \A i \in 1..(Cur.h - 1) : stack'[i].info = stack[i].info

(* C16: closure handling is stack-neutral: while the body of a closure is   *)
(* processed its Function frame stays on the stack where it was pushed (no  *)
(* frame at or below it is closed, whatever the body holds), and the close  *)
(* loop of the closure closes exactly that frame and the frames above it,   *)
(* leaving the Function node as a child of the frame on top on entry.       *)
C16_ClosureStackNeutral ==
    /\ [](pc = "walk" => \A i \in OpenClosures : FunctionFrameInPlace(ctl[i]))
    /\ [][ClosureCloseIsNeutral]_vars

-----------------------------------------------------------------------------
HeadingConstructs == { q \in AllPaths : Kind(q) = "Heading" }

(* C17: every Function entry of the returned forest has the range of a      *)
(* whole closure node, and every Heading entry has the range of a whole     *)
(* heading construct (marker and title).                                    *)
C17_RangeCoversConstruct ==
    Returned =>
        \A e \in ForestEntries :
            /\ e.info.kind = function => \E q \in ClosurePaths : e.info.range = Range(q)
            /\ e.info.kind.tag = "Heading" =>
                   \E q \in HeadingConstructs : e.info.range = Range(q)

-----------------------------------------------------------------------------
\* between the push of the sentinel (line 24) and the end of the call
InCall == pc \in {"walk", "unwind"}

(* C18: from the push of the sentinel to the final pop the stack is never   *)
(* empty and its bottom frame is the sentinel (Heading(-1), 0..0); no loop  *)
(* and no comment merge pops or closes it: the sentinel is no frame above   *)
(* the bottom and no closed node.                                           *)
C18_SentinelStaysAtBottom ==
    /\ InCall =>
           /\ Len(stack) >= 1
           /\ stack[1].info = Sentinel.info
           /\ \A i \in 2..Len(stack) : stack[i].info # Sentinel.info
    /\ \A n \in AllClosed : n.info # Sentinel.info

\* a heading has closed an earlier heading down to the sentinel
C18_Witness ==
    /\ pc = "walk" /\ Len(stack) = 2
    /\ stack[2].info.kind.tag = "Heading"
    /\ stack[1].children # <<>>
    /\ stack[1].children[Len(stack[1].children)].info.kind.tag = "Heading"

-----------------------------------------------------------------------------
\* check_node of the node Cur.path is about to return: normally, at the tail of
\* its arm, or with an error that passes through whatever of it was pending
NodeReturns ==
    /\ ctl # <<>>
    /\ \/ pc = "walk" /\ Cur.op \in {"close", "cclose", "exit"}
       \/ pc = "unwind" /\ Cur.op \in {"close", "body", "cclose", "named", "exit"}

(* C19: the naming context is a scoped override: when check_node of a node  *)
(* returns, normally or with an error from its subtree, ident_context is    *)
(* what it was when check_node of that node began.                          *)
C19_ContextRestoredOnReturn ==
    [][NodeReturns => ident_context' = Cur.ctx]_vars

-----------------------------------------------------------------------------
\* check_node is about to process a node the classifier rejects, of one of `kinds`
Rejected(kinds) ==
    /\ Walking /\ Cur.op = "check"
    /\ get_ident(Cur.path).tag = "none"
    /\ kinds # {} /\ Kind(Cur.path) \in kinds

\* processing the node changes nothing and visits nothing
NoEffect ==
    /\ stack' = stack /\ ident_context' = ident_context
    /\ ctl' = Tail(ctl) /\ pc' = pc

InertKinds == (TriviaKinds \ {"LineComment"}) \cup KeywordKinds \cup {"Error"}

\* C20 as the specification states it: trivia other than a line comment, keywords
\* and error nodes have no effect
C20_TriviaHasNoEffect == [][Rejected(InertKinds) => NoEffect]_vars

\* the Space arm: one Space frame pushed, nothing else
SpacePushesFrame ==
    /\ stack' = Append(stack, Frame(LexicalInfo("", Space, Range(Cur.path))))
    /\ ident_context' = ident_context
    /\ ctl' = Tail(ctl) /\ pc' = pc

(* C20: processing a rejected node that is trivia other than a line comment *)
(* and a space (a block comment, a paragraph break), a keyword or an error  *)
(* node visits nothing and leaves the stack and the naming context as they  *)
(* are; processing a Space node pushes one Space frame and changes nothing  *)
(* else.                                                                    *)
C20_TriviaButSpaceHasNoEffect ==
    [][/\ Rejected(InertKinds \ {"Space"}) => NoEffect
       /\ Rejected({"Space"}) => SpacePushesFrame]_vars

\* a paragraph break after a line comment has just been processed: the comment's
\* frame is still the top of the stack
C20_Witness ==
    /\ Walking /\ Cur.op = "check"
    /\ Cur.path # <<>> /\ Cur.path[Len(Cur.path)] > 1
    /\ Kind(Append(Parent(Cur.path), Cur.path[Len(Cur.path)] - 1)) = "Parbreak"
    /\ Len(stack) = 2 /\ stack[2].info.kind = LineComment

-----------------------------------------------------------------------------
\* the value of a named pair, the base of a field access: what the arm hands to
\* check_first_sub_expr
SubExprOf(p) ==
    IF Kind(p) = "Named" THEN FindFirst(Rev(Children(p)), ExprKinds)
    ELSE FindFirst(Children(p), ExprKinds)

\* the arm of a named pair or field access calls check_node on the value or base
\* under the context in force when the pair or access was reached
HandsOnAmbientContext ==
    (Checking({"Named", "FieldAccess"}) /\ SubExprOf(Cur.path) # None) =>
        /\ ctl' # <<>> /\ ctl'[1].op = "with"
        /\ ctl'[1].path = SubExprOf(Cur.path)[1]
        /\ ctl'[1].ctx = ident_context

\* a named pair reached under IdentContext::Var whose value, an identifier, has
\* been processed: the second half of the Named arm is next
NamedValueDoneUnderVar(p) ==
    /\ Walking /\ Cur.op = "named" /\ Cur.path = p
    /\ sk = "Symbol" /\ ident_context = "Var"
    /\ SubExprOf(p) # None /\ Kind(SubExprOf(p)[1]) = "Ident"

\* the field names: the identifiers of a field access other than its base
FieldNames ==
    { q \in AllPaths : /\ q # <<>> /\ Kind(Parent(q)) = "FieldAccess"
                       /\ Kind(q) = "Ident" /\ SubExprOf(Parent(q)) # Some(q) }

(* C21: the value of a named pair and the base of a field access are        *)
(* processed under the naming context in force when the pair or access was  *)
(* reached; under IdentContext::Var an identifier in value position yields  *)
(* a Variable entry; the field name of a field access yields no entry.      *)
C21_ValueUnderAmbientContext ==
    /\ [][HandsOnAmbientContext]_vars
    /\ [](\A p \in AllPaths :
              NamedValueDoneUnderVar(p) =>
                  \E e \in LiveEntries :
                      /\ e.info.kind = variable
                      /\ e.info.range = Range(SubExprOf(p)[1]))
    /\ [](\A e \in Entries : \A q \in FieldNames : e.info.range # Range(q))

====
